---------------------------- MODULE Spec2Model ----------------------------
(***************************************************************************)
(* Centerline processing and tube placement of SlicerEVARSim               *)
(* (src/EVARSim/EVARSim.py, class EVARSimLogic).                           *)
(*                                                                         *)
(* Numbers.  The program computes in floating point; the model computes    *)
(* the same expressions in exact rational arithmetic.  A rational is a     *)
(* pair <<n, d>> with d > 0 in lowest terms, so equal rationals are equal  *)
(* values.                                                                 *)
(*                                                                         *)
(* Points.  Every centerline of the model lies on one straight line; a     *)
(* point is its coordinate along that line, and the Euclidean norm of the  *)
(* difference of two points is the absolute value of the difference.  A    *)
(* centerline may double back and may repeat a point.                      *)
(***************************************************************************)
EXTENDS Integers, Sequences, FiniteSets, TLC

VARIABLES
    pc,                 \* which operation has run: "ready" before any
    curvePoints,        \* the centerline points handed to the operation
    radius,             \* tube radius
    tubeLength,         \* tube length
    position,           \* (base) position along the centerline, in [0,1]
    numberOfTubes,      \* requested tube count
    resolution,         \* requested number of sides
    startDistance,      \* _positionTubeAlongCenterline: local startDistance
    endDistance,        \* _positionTubeAlongCenterline: local endDistance
    positionedPoints,   \* _positionTubeAlongCenterline: returned points
    positions,          \* compositor: the placement positions computed
    returned,           \* compositor: the poly data returned
    raised,             \* the exception the last operation raised, or "none"
    centerlineCurve,    \* process: the markups curve node of the scene
    inputModel,         \* process: the input model node of the scene
    outputModel,        \* process: the output model node passed to the call
    outputPolyData,     \* process: the poly data held by the output model
    scene,              \* the model nodes named EVARSim_Tube_k, in scene order
    smoothing,          \* the smoothing factor (argument or slider value)
    smoothResult,       \* _smoothCenterline: returned points
    reduceResult,       \* _reduceCenterlinePoints: returned points
    tubeParameters,     \* widget: self.tubeParameters, slot -> record
    currentlySelectedTube,  \* widget: self.currentlySelectedTube
    tubeSelectorCount,  \* widget: number of items of ui.tubeSelector
    tubeSelectorIndex,  \* widget: ui.tubeSelector.currentIndex
    availableBranches,  \* widget: self.availableBranches
    parameterChangedConnections,  \* widget: connections of each parameter
                        \* slider's valueChanged to _onParameterChanged
    branchSelectedConnections,    \* widget: connections of the branch
                        \* selector's currentIndexChanged to _onBranchSelected
    updatesDuringLoad,  \* widget: calls of _updateSelectedTube made while
                        \* _loadSelectedTubeParameters last ran
    branchIndex,        \* _extractBranchCenterline: the index asked for
    pointConnectivity,  \* analyze_vtk: point_connectivity
    branchPoints,       \* analyze_vtk: branch_points
    endpointPoints,     \* analyze_vtk: endpoint_points
    branchPointId,      \* frequency analysis: branch_point_id
    traceStart,         \* trace_branch_path: start_point
    traceNext,          \* trace_branch_path: next_point
    tracePath           \* trace_branch_path: path

\* The results of the resampling operations.
resamplerVars == <<smoothing, smoothResult, reduceResult>>

\* The widget's own state.
widgetVars == <<tubeParameters, currentlySelectedTube, tubeSelectorCount,
                tubeSelectorIndex, availableBranches,
                parameterChangedConnections, branchSelectedConnections,
                updatesDuringLoad>>

\* The state of the branch analysis.
analysisVars == <<branchIndex, pointConnectivity, branchPoints, endpointPoints,
                  branchPointId, traceStart, traceNext, tracePath>>

vars == <<pc, curvePoints, radius, tubeLength, position, numberOfTubes,
          resolution, startDistance, endDistance, positionedPoints,
          positions, returned, raised, centerlineCurve, inputModel,
          outputModel, outputPolyData, scene, resamplerVars, widgetVars,
          analysisVars>>

\* No resampling operation has run.
ResamplerIdle ==
    /\ smoothing = <<0, 1>>
    /\ smoothResult = <<>>
    /\ reduceResult = <<>>

\* EVARSimWidget.setup: every parameter slider and the branch selector is
\* connected once to its handler.
HandlersConnected ==
    /\ parameterChangedConnections = 1
    /\ branchSelectedConnections = 1
    /\ updatesDuringLoad = 0

\* EVARSimWidget.setup: self.tubeParameters = {}, self.currentlySelectedTube
\* = 1, self.availableBranches = []; the tube selector holds "Tube 1".
WidgetSetup ==
    /\ tubeParameters = <<>>
    /\ currentlySelectedTube = 1
    /\ tubeSelectorCount = 1
    /\ tubeSelectorIndex = 0
    /\ availableBranches = <<>>
    /\ HandlersConnected

\* No branch analysis has run.
AnalysisIdle ==
    /\ branchIndex = 0
    /\ pointConnectivity = <<>>
    /\ branchPoints = {}
    /\ endpointPoints = {}
    /\ branchPointId = 0
    /\ traceStart = 0
    /\ traceNext = 0
    /\ tracePath = <<>>

(***************************************************************************)
(* Exact rational arithmetic.                                              *)
(***************************************************************************)
Abs(x) == IF x < 0 THEN -x ELSE x

RECURSIVE GCD(_, _)
GCD(a, b) == IF b = 0 THEN a ELSE GCD(b, a % b)

Rat(n, d) ==
    LET s == IF d < 0 THEN -1 ELSE 1
        g == GCD(Abs(n), Abs(d))
    IN  <<(s * n) \div g, (s * d) \div g>>

R(i) == <<i, 1>>
Zero == R(0)
One == R(1)
RAdd(a, b) == Rat(a[1] * b[2] + b[1] * a[2], a[2] * b[2])
RSub(a, b) == Rat(a[1] * b[2] - b[1] * a[2], a[2] * b[2])
RMul(a, b) == Rat(a[1] * b[1], a[2] * b[2])
RDiv(a, b) == Rat(a[1] * b[2], a[2] * b[1])
RLt(a, b) == a[1] * b[2] < b[1] * a[2]
RLe(a, b) == a[1] * b[2] <= b[1] * a[2]
RMax(a, b) == IF RLt(a, b) THEN b ELSE a
RMin(a, b) == IF RLt(b, a) THEN b ELSE a
RAbs(a) == <<Abs(a[1]), a[2]>>

\* The sum of a list (exact, so the order of the additions does not matter:
\* the list is summed by halves).
RECURSIVE RSum(_)
RSum(s) ==
    IF s = <<>> THEN Zero
    ELSE IF Len(s) = 1 THEN s[1]
    ELSE LET h == Len(s) \div 2
         IN  RAdd(RSum(SubSeq(s, 1, h)), RSum(SubSeq(s, h + 1, Len(s))))

\* The lists of a list, one after the other (joined by halves).
RECURSIVE Concat(_)
Concat(ss) ==
    IF ss = <<>> THEN <<>>
    ELSE IF Len(ss) = 1 THEN ss[1]
    ELSE LET h == Len(ss) \div 2
         IN  Concat(SubSeq(ss, 1, h)) \o Concat(SubSeq(ss, h + 1, Len(ss)))

\* A Python list holds its elements once computed: a sequence written as a
\* function is turned into the tuple of its values.
AsList(f) == f \o <<>>

(***************************************************************************)
(* Bounds of the model and the inputs drawn from them.                     *)
(***************************************************************************)
MaxSegments == 3

\* Differences between consecutive centerline points.
Steps == {0, 10, 20, 50, -10}

RECURSIVE PathsWithSegments(_)
PathsWithSegments(k) ==
    IF k = 0 THEN {<<Zero>>}
    ELSE {Append(p, RAdd(p[Len(p)], R(s))) : p \in PathsWithSegments(k - 1), s \in Steps}

\* Centerlines: no point, one point, and every path of 1..MaxSegments edges.
Paths == {<<>>} \cup UNION {PathsWithSegments(k) : k \in 0..MaxSegments}

Lengths == {R(10), R(20), R(40)}
Positions == {Zero, Rat(1, 4), Rat(1, 2), Rat(9, 10), One}

(***************************************************************************)
(* Geometry utilities.                                                     *)
(***************************************************************************)
\* np.linalg.norm(p2 - p1) for two points of the line.
Norm(p1, p2) == RAbs(RSub(p2, p1))

\* segmentLengths: the length of each edge of the path.
SegmentLengths(pts) == AsList([i \in 1..(Len(pts) - 1) |-> Norm(pts[i], pts[i + 1])])

\* totalLength: the sum of the edge lengths (0 for fewer than 2 points).
TotalLength(pts) == IF Len(pts) < 2 THEN Zero ELSE RSum(SegmentLengths(pts))

\* point1 + t * (point2 - point1)
Lerp(p1, p2, t) == RAdd(p1, RMul(t, RSub(p2, p1)))

(***************************************************************************)
(* _positionTubeAlongCenterline (extractSegment).                          *)
(***************************************************************************)
\* A plausible slip: the position == 1.0 case is forgotten.
StartDistanceCentredOnly(T, L, pos) ==
    IF pos = Zero THEN Zero
    ELSE RMax(Zero, RSub(RMul(pos, T), RDiv(L, R(2))))

StartDistance(T, L, pos) ==
    IF pos = Zero THEN Zero
    ELSE IF pos = One THEN RMax(Zero, RSub(T, L))
    ELSE RMax(Zero, RSub(RMul(pos, T), RDiv(L, R(2))))

EndDistance(T, sd, L) == RMin(T, RAdd(sd, L))

\* The points one iteration of the walk inserts for edge i, which spans
\* [segmentStart, segmentEnd] of the cumulative distance.
SegmentPoints(pts, lens, i, segmentStart, sd, ed) ==
    LET segmentEnd == RAdd(segmentStart, lens[i])
        point1 == pts[i]
        point2 == pts[i + 1]
    IN  IF RLt(sd, segmentEnd) /\ RLt(segmentStart, ed)
        THEN (IF RLt(segmentStart, sd) /\ RLt(sd, segmentEnd)
              THEN <<Lerp(point1, point2, RDiv(RSub(sd, segmentStart), lens[i]))>>
              ELSE <<>>)
             \o
             (IF RLe(sd, segmentStart) /\ RLe(segmentEnd, ed)
              THEN <<point2>>
              ELSE <<>>)
             \o
             (IF RLt(segmentStart, ed) /\ RLt(ed, segmentEnd)
              THEN <<Lerp(point1, point2, RDiv(RSub(ed, segmentStart), lens[i]))>>
              ELSE <<>>)
        ELSE <<>>

\* segmentStart at the head of each iteration: the running sum of the edge
\* lengths before edge i.
RECURSIVE SegmentStarts(_)
SegmentStarts(lens) ==
    IF Len(lens) <= 1 THEN AsList([i \in 1..Len(lens) |-> Zero])
    ELSE LET h == Len(lens) \div 2
             left == SegmentStarts(SubSeq(lens, 1, h))
             right == SegmentStarts(SubSeq(lens, h + 1, Len(lens)))
             leftLength == RAdd(left[h], lens[h])
         IN  left \o AsList([i \in 1..Len(right) |-> RAdd(leftLength, right[i])])

\* The loop over the edges: the points of every iteration, in order.
WalkSegments(pts, lens, sd, ed) ==
    LET starts == SegmentStarts(lens)
    IN  Concat(AsList([i \in 1..Len(lens) |->
                          SegmentPoints(pts, lens, i, starts[i], sd, ed)]))

PositionTubeAlongCenterline(pts, L, pos) ==
    IF Len(pts) < 2 THEN pts
    ELSE LET lens == SegmentLengths(pts)
             T == TotalLength(pts)
             sd == StartDistance(T, L, pos)
             ed == EndDistance(T, sd, L)
         IN  (IF sd = Zero THEN <<pts[1]>> ELSE <<>>)
             \o WalkSegments(pts, lens, sd, ed)

(***************************************************************************)
(* Poly data and _createTubeAlongCurve (buildTube).                        *)
(*                                                                         *)
(* A poly data is the sequence of the tubes appended into it; a tube is    *)
(* the path its side wall is swept along, its radius, its number of sides  *)
(* and its two caps.  NoPolyData is a model node that holds no poly data.  *)
(***************************************************************************)
NoPolyData == [present |-> FALSE, tubes |-> <<>>]

\* vtk.vtkPolyData(): a poly data with no points and no cells.
EmptyPolyData == [present |-> TRUE, tubes |-> <<>>]

\* A plausible slip: the requested resolution is used as it is.
ActualResolutionAsRequested(res) == res

\* actualResolution = max(int(resolution), 8)
ActualResolution(res) == IF res < 8 THEN 8 ELSE res

\* The value of 0.0 / 0.0 in numpy: nan (a warning, no exception).
NaN == <<0, 0>>

RNeg(a) == IF a = NaN THEN NaN ELSE <<-a[1], a[2]>>

\* (p2 - p1) / np.linalg.norm(p2 - p1): a unit direction along the line, or
\* nan when the two points coincide.
UnitDirection(p1, p2) ==
    LET d == RSub(p2, p1)
    IN  IF RAbs(d) = Zero THEN NaN ELSE RDiv(d, RAbs(d))

\* A plausible slip: the centre point of the cap is not inserted.
CreateCircularCapRimOnly(center, normal, r, res) ==
    [center |-> center, normal |-> normal, radius |-> r,
     numberOfPoints |-> res, numberOfCells |-> res]

\* _createCircularCap: the centre, then `resolution` rim points around it
\* in the plane perpendicular to normal, and one triangle per rim point.
\* The rim points are computed from normal, so they are nan when it is.
CreateCircularCap(center, normal, r, res) ==
    [center |-> center, normal |-> normal, radius |-> r,
     numberOfPoints |-> 1 + res, numberOfCells |-> res]

\* _addRigidEndCaps: the start cap and the end cap of a tube along pts.
AddRigidEndCaps(pts, r, res) ==
    LET firstPoint == pts[1]
        lastPoint == pts[Len(pts)]
        startDirection == IF Len(pts) > 1 THEN UnitDirection(firstPoint, pts[2])
                          ELSE UnitDirection(firstPoint, lastPoint)
        endDirection == IF Len(pts) > 1 THEN UnitDirection(pts[Len(pts) - 1], lastPoint)
                        ELSE UnitDirection(firstPoint, lastPoint)
    IN  [startCap |-> CreateCircularCap(firstPoint, RNeg(startDirection), r, res),
         endCap |-> CreateCircularCap(lastPoint, endDirection, r, res)]

CreateTubeAlongCurve(pts, r, res) ==
    IF Len(pts) < 2 THEN EmptyPolyData
    ELSE LET actualResolution == ActualResolution(res)
             caps == AddRigidEndCaps(pts, r, actualResolution)
         IN  [present |-> TRUE,
              tubes |-> <<[path |-> pts, radius |-> r, sides |-> actualResolution,
                           startCap |-> caps.startCap, endCap |-> caps.endCap]>>]

\* _combineTubes: vtkAppendPolyData over the list.
CombineTubes(tubePolyDataList) ==
    [present |-> TRUE,
     tubes |-> Concat(AsList([i \in 1..Len(tubePolyDataList) |-> tubePolyDataList[i].tubes]))]

\* Points of one tube: one ring of `sides` points per path point from the
\* tube filter, and the points of the 2 caps.
TubeNumberOfPoints(t) ==
    Len(t.path) * t.sides + t.startCap.numberOfPoints + t.endCap.numberOfPoints

\* Cells of one tube: `sides` strips from the tube filter and the triangles
\* of the 2 caps.
TubeNumberOfCells(t) == t.sides + t.startCap.numberOfCells + t.endCap.numberOfCells

RECURSIVE PointsOfTubes(_)
PointsOfTubes(ts) ==
    IF ts = <<>> THEN 0 ELSE TubeNumberOfPoints(ts[1]) + PointsOfTubes(Tail(ts))

RECURSIVE CellsOfTubes(_)
CellsOfTubes(ts) ==
    IF ts = <<>> THEN 0 ELSE TubeNumberOfCells(ts[1]) + CellsOfTubes(Tail(ts))

GetNumberOfPoints(pd) == PointsOfTubes(pd.tubes)
GetNumberOfCells(pd) == CellsOfTubes(pd.tubes)

(***************************************************************************)
(* _createMultipleTubes (merged mode).                                     *)
(***************************************************************************)
MaxTubes == 3

Resolutions == {6, 16}

\* A plausible slip: the loop index is divided by the count, not count - 1.
SpreadPositionOverCount(spanStart, spanEnd, i, n) ==
    RAdd(spanStart, RMul(Rat(i, n), RSub(spanEnd, spanStart)))

\* t = i / (numberOfTubes - 1); pos = spanStart + t * (spanEnd - spanStart)
SpreadPosition(spanStart, spanEnd, i, n) ==
    RAdd(spanStart, RMul(Rat(i, n - 1), RSub(spanEnd, spanStart)))

MultipleTubePositions(T, L, basePosition, n) ==
    IF n = 1 THEN <<basePosition>>
    ELSE LET totalSpanNeeded == RMul(RMul(R(n - 1), L), Rat(8, 10))
             maxSpan == RMin(totalSpanNeeded, RSub(T, L))
         IN  IF RLe(maxSpan, Zero) THEN AsList([i \in 1..n |-> basePosition])
             ELSE LET spanCenter == basePosition
                      half == RDiv(maxSpan, RMul(R(2), T))
                      spanStart == RMax(Zero, RSub(spanCenter, half))
                      spanEnd == RMin(One, RAdd(spanCenter, half))
                  IN  IF n = 2 THEN <<spanStart, spanEnd>>
                      ELSE AsList([i \in 1..n |-> SpreadPosition(spanStart, spanEnd, i - 1, n)])

\* A plausible slip: the loop stops at the first segment that cannot be built.
RECURSIVE MultipleTubeListAbortOnFailure(_, _, _, _, _, _)
MultipleTubeListAbortOnFailure(pts, r, L, poss, res, i) ==
    IF i > Len(poss) THEN <<>>
    ELSE LET segment == PositionTubeAlongCenterline(pts, L, poss[i])
         IN  IF Len(segment) >= 2
             THEN <<CreateTubeAlongCurve(segment, r, res)>>
                  \o MultipleTubeListAbortOnFailure(pts, r, L, poss, res, i + 1)
             ELSE <<>>

\* The loop over positions: a tube is appended for every position whose
\* extracted segment has at least 2 points.
RECURSIVE MultipleTubeList(_, _, _, _, _, _)
MultipleTubeList(pts, r, L, poss, res, i) ==
    IF i > Len(poss) THEN <<>>
    ELSE LET segment == PositionTubeAlongCenterline(pts, L, poss[i])
         IN  (IF Len(segment) >= 2 THEN <<CreateTubeAlongCurve(segment, r, res)>> ELSE <<>>)
             \o MultipleTubeList(pts, r, L, poss, res, i + 1)

\* A plausible slip: an empty list returns an empty poly data, no error.
ReturnTubesNoRaise(tubePolyDataList) ==
    IF Len(tubePolyDataList) = 0
    THEN [raised |-> "none", returned |-> EmptyPolyData]
    ELSE IF Len(tubePolyDataList) = 1
    THEN [raised |-> "none", returned |-> tubePolyDataList[1]]
    ELSE [raised |-> "none", returned |-> CombineTubes(tubePolyDataList)]

\* The end of _createMultipleTubes: raise, return the one tube, or combine.
ReturnTubes(tubePolyDataList) ==
    IF Len(tubePolyDataList) = 0
    THEN [raised |-> "ValueError", returned |-> NoPolyData]
    ELSE IF Len(tubePolyDataList) = 1
    THEN [raised |-> "none", returned |-> tubePolyDataList[1]]
    ELSE [raised |-> "none", returned |-> CombineTubes(tubePolyDataList)]

CreateMultipleTubes(pts, r, L, basePosition, n, res) ==
    ReturnTubes(MultipleTubeList(pts, r, L,
                    MultipleTubePositions(TotalLength(pts), L, basePosition, n), res, 1))

(***************************************************************************)
(* The scene's tube nodes, _clearExistingTubes and _createSeparateTubes.   *)
(*                                                                         *)
(* A node is [name |-> k, polyData |-> pd] for the model node named        *)
(* EVARSim_Tube_k; scene lists the nodes in the order they were added.     *)
(***************************************************************************)
\* slicer.mrmlScene.GetFirstNodeByName and RemoveNode for EVARSim_Tube_k.
RemoveFirstNodeByName(sc, k) ==
    IF \E j \in 1..Len(sc) : sc[j].name = k
    THEN LET j == CHOOSE x \in 1..Len(sc) :
                      sc[x].name = k /\ \A y \in 1..(x - 1) : sc[y].name # k
         IN  SubSeq(sc, 1, j - 1) \o SubSeq(sc, j + 1, Len(sc))
    ELSE sc

\* for i in range(2, 11): remove the first node named EVARSim_Tube_i.
RECURSIVE ClearFrom(_, _)
ClearFrom(sc, i) == IF i >= 11 THEN sc ELSE ClearFrom(RemoveFirstNodeByName(sc, i), i + 1)

ClearExistingTubes(sc) == ClearFrom(sc, 2)

\* def _clearExistingTubes(self): the parameters it accepts besides self.
ClearExistingTubesParameters == 0

\* self._clearExistingTubes(numberOfTubes): the arguments the call passes.
SeparateTubesClearArguments == 1

SeparateTubePositions(basePosition, n) ==
    IF n = 1 THEN <<basePosition>>
    ELSE AsList([k \in 1..n |->
            IF n = 2 THEN RAdd(Rat(2, 10), RMul(R(k - 1), Rat(6, 10)))
            ELSE RAdd(Rat(1, 10), RMul(R(k - 1), RDiv(Rat(8, 10), R(n - 1))))])

\* One tube model node: it holds a tube when the segment has >= 2 points.
TubeNode(k, pts, r, L, pos, res) ==
    LET segment == PositionTubeAlongCenterline(pts, L, pos)
    IN  [name |-> k,
         polyData |-> IF Len(segment) >= 2 THEN CreateTubeAlongCurve(segment, r, res)
                      ELSE NoPolyData]

\* _createSeparateTubes: the scene, the output poly data and the exception.
CreateSeparateTubes(sc, out, pts, r, L, basePosition, n, res) ==
    LET poss == SeparateTubePositions(basePosition, n)
    IN  IF SeparateTubesClearArguments # ClearExistingTubesParameters
        THEN [raised |-> "TypeError", scene |-> sc, outputPolyData |-> out, positions |-> poss]
        ELSE [raised |-> "none",
              scene |-> ClearExistingTubes(sc)
                        \o AsList([k \in 1..Len(poss) |-> TubeNode(k, pts, r, L, poss[k], res)]),
              outputPolyData |-> EmptyPolyData,
              positions |-> poss]

(***************************************************************************)
(* Specification SpecExtract: one call of _positionTubeAlongCenterline on  *)
(* inputs drawn by Init.                                                   *)
(***************************************************************************)
NoNode == [present |-> FALSE, points |-> <<>>, lines |-> <<>>]

InitExtract ==
    /\ pc = "ready"
    /\ curvePoints \in Paths
    /\ tubeLength \in Lengths
    /\ position \in Positions
    /\ radius = 2
    /\ numberOfTubes = 1
    /\ resolution = 16
    /\ startDistance = Zero
    /\ endDistance = Zero
    /\ positionedPoints = <<>>
    /\ positions = <<>>
    /\ returned = NoPolyData
    /\ raised = "none"
    /\ centerlineCurve = NoNode
    /\ inputModel = NoNode
    /\ outputModel = FALSE
    /\ outputPolyData = NoPolyData
    /\ scene = <<>>
    /\ ResamplerIdle
    /\ WidgetSetup
    /\ AnalysisIdle

PositionTube ==
    /\ pc = "ready"
    /\ pc' = "positioned"
    /\ positionedPoints' = PositionTubeAlongCenterline(curvePoints, tubeLength, position)
    /\ startDistance' = IF Len(curvePoints) < 2 THEN Zero
                        ELSE StartDistance(TotalLength(curvePoints), tubeLength, position)
    /\ endDistance' = IF Len(curvePoints) < 2 THEN Zero
                      ELSE EndDistance(TotalLength(curvePoints), startDistance', tubeLength)
    /\ UNCHANGED <<curvePoints, radius, tubeLength, position, numberOfTubes,
                   resolution, positions, returned, raised, centerlineCurve,
                   inputModel, outputModel, outputPolyData, scene>>
    /\ UNCHANGED <<resamplerVars, widgetVars, analysisVars>>

NextExtract == PositionTube

SpecExtract == InitExtract /\ [][NextExtract]_vars

(***************************************************************************)
(* Claims about _positionTubeAlongCenterline, checked under SpecExtract.   *)
(***************************************************************************)
\* The cumulative arc-length offset of vertex i of the path.
VertexOffset(pts, i) == RSum(SubSeq(SegmentLengths(pts), 1, i - 1))

\* The point of the path at arc-length offset d, 0 <= d <= total length.
PointAtOffset(pts, d) ==
    LET i == CHOOSE k \in 1..(Len(pts) - 1) :
                 /\ RLe(VertexOffset(pts, k), d)
                 /\ RLe(d, VertexOffset(pts, k + 1))
                 /\ \A j \in 1..(k - 1) : RLt(VertexOffset(pts, j + 1), d)
        len == Norm(pts[i], pts[i + 1])
    IN  IF len = Zero THEN pts[i]
        ELSE Lerp(pts[i], pts[i + 1], RDiv(RSub(d, VertexOffset(pts, i)), len))

\* The vertices of the path whose offset lies strictly between sd and ed.
RECURSIVE VerticesBetween(_, _, _, _)
VerticesBetween(pts, i, sd, ed) ==
    IF i > Len(pts) THEN <<>>
    ELSE (IF RLt(sd, VertexOffset(pts, i)) /\ RLt(VertexOffset(pts, i), ed)
          THEN <<pts[i]>> ELSE <<>>)
         \o VerticesBetween(pts, i + 1, sd, ed)

\* The call has run on a path with at least 2 points and positive length.
ExtractedFromValidPath ==
    /\ pc = "positioned"
    /\ Len(curvePoints) >= 2
    /\ RLt(Zero, TotalLength(curvePoints))

\* C1: for every path with at least 2 points and positive total arc length
\* T, every length L > 0 and every position in [0,1], the arc length of the
\* returned point sequence equals min(L, T).
C1_ArcLengthIsMinLengthTotal ==
    ExtractedFromValidPath =>
        TotalLength(positionedPoints) = RMin(tubeLength, TotalLength(curvePoints))

\* C2: the start offset is 0 when position = 0, max(0, T - length) when
\* position = 1, max(0, position*T - length/2) otherwise; the end offset is
\* min(T, start + length); T = 100, length = 20, position = 1/2 gives [40,60].
C2_RangeOffsets ==
    (pc = "positioned" /\ Len(curvePoints) >= 2) =>
        LET T == TotalLength(curvePoints)
            centred == RSub(RMul(position, T), RDiv(tubeLength, R(2)))
        IN  /\ position = Zero => startDistance = Zero
            /\ position = One =>
                   startDistance = (IF RLt(T, tubeLength) THEN Zero ELSE RSub(T, tubeLength))
            /\ (position # Zero /\ position # One) =>
                   startDistance = (IF RLt(centred, Zero) THEN Zero ELSE centred)
            /\ endDistance = (IF RLt(RAdd(startDistance, tubeLength), T)
                              THEN RAdd(startDistance, tubeLength) ELSE T)
            /\ (T = R(100) /\ tubeLength = R(20) /\ position = Rat(1, 2)) =>
                   (startDistance = R(40) /\ endDistance = R(60))

\* C2 witness: the example range [40,60], and a position = 1 call whose
\* start offset is T - length > 0, have been computed.
C2_Witness ==
    /\ pc = "positioned"
    /\ position = One
    /\ TotalLength(curvePoints) = R(100)
    /\ tubeLength = R(20)
    /\ startDistance = R(80)
    /\ endDistance = R(100)

\* C3: for a path with at least 2 points the result is, in path order, the
\* point at the start offset, every input vertex whose offset lies strictly
\* between the start and end offsets, and the point at the end offset.
C3_StartInteriorVerticesEnd ==
    ExtractedFromValidPath =>
        positionedPoints =
            <<PointAtOffset(curvePoints, startDistance)>>
            \o VerticesBetween(curvePoints, 1, startDistance, endDistance)
            \o <<PointAtOffset(curvePoints, endDistance)>>

\* C26: for every path with at least 2 points and positive total arc
\* length, every length L > 0 and every position in [0,1], the call returns
\* at least 2 points, so the callers' test for at least 2 points never
\* rejects a request on a valid centerline.
C26_ValidPathGivesTwoPoints ==
    (ExtractedFromValidPath /\ RLt(Zero, tubeLength)) =>
        Len(positionedPoints) >= 2


(***************************************************************************)
(* Specification SpecCompositor: one call of _createMultipleTubes or of    *)
(* _createSeparateTubes on inputs drawn by Init, in a scene with no tube   *)
(* node.                                                                   *)
(***************************************************************************)
InitCompositor ==
    /\ pc = "ready"
    /\ curvePoints \in Paths \ {<<>>}
    /\ tubeLength \in Lengths
    /\ position \in Positions
    /\ radius = 2
    /\ numberOfTubes \in 1..MaxTubes
    /\ resolution \in Resolutions
    /\ startDistance = Zero
    /\ endDistance = Zero
    /\ positionedPoints = <<>>
    /\ positions = <<>>
    /\ returned = NoPolyData
    /\ raised = "none"
    /\ centerlineCurve = NoNode
    /\ inputModel = NoNode
    /\ outputModel = TRUE
    /\ outputPolyData = NoPolyData
    /\ scene = <<>>
    /\ ResamplerIdle
    /\ WidgetSetup
    /\ AnalysisIdle

MultipleTubes ==
    /\ pc = "ready"
    /\ pc' = "merged"
    /\ positions' = MultipleTubePositions(TotalLength(curvePoints), tubeLength,
                                          position, numberOfTubes)
    /\ \E result \in {CreateMultipleTubes(curvePoints, radius, tubeLength, position,
                                           numberOfTubes, resolution)} :
           /\ raised' = result.raised
           /\ returned' = result.returned
    /\ UNCHANGED <<curvePoints, radius, tubeLength, position, numberOfTubes,
                   resolution, startDistance, endDistance, positionedPoints,
                   centerlineCurve, inputModel, outputModel, outputPolyData,
                   scene>>
    /\ UNCHANGED <<resamplerVars, widgetVars, analysisVars>>

SeparateTubes ==
    /\ pc = "ready"
    /\ pc' = "separate"
    /\ \E result \in {CreateSeparateTubes(scene, outputPolyData, curvePoints, radius,
                                           tubeLength, position, numberOfTubes, resolution)} :
           /\ raised' = result.raised
           /\ scene' = result.scene
           /\ outputPolyData' = result.outputPolyData
           /\ positions' = result.positions
    /\ UNCHANGED <<curvePoints, radius, tubeLength, position, numberOfTubes,
                   resolution, startDistance, endDistance, positionedPoints,
                   returned, centerlineCurve, inputModel, outputModel>>
    /\ UNCHANGED <<resamplerVars, widgetVars, analysisVars>>

NextCompositor == MultipleTubes \/ SeparateTubes

SpecCompositor == InitCompositor /\ [][NextCompositor]_vars

(***************************************************************************)
(* Claims about the compositor, checked under SpecCompositor.              *)
(***************************************************************************)
\* C8: placing tubes in Separate-models mode produces one tube per position,
\* with positions basePosition for count 1, exactly 0.2 and 0.8 for count 2
\* whatever basePosition is, and for count > 2 count evenly spaced positions
\* from 0.1 to 0.9 inclusive.
C8_SeparateModePositions ==
    pc = "separate" =>
        LET n == numberOfTubes
        IN  /\ raised = "none"
            /\ Len(scene) = n
            /\ \A k \in 1..n : scene[k].name = k
            /\ Len(positions) = n
            /\ n = 1 => positions[1] = position
            /\ n = 2 => positions = <<Rat(2, 10), Rat(8, 10)>>
            /\ n > 2 => \A k \in 1..n :
                   positions[k] = RAdd(Rat(1, 10), RMul(Rat(k - 1, n - 1), Rat(8, 10)))

\* The span of a merged placement: min((count-1)*length*0.8, T - length).
MergedSpan == RMin(RMul(R(numberOfTubes - 1), RMul(tubeLength, Rat(4, 5))),
                   RSub(TotalLength(curvePoints), tubeLength))

MergedSpanStart ==
    LET lo == RSub(position, RDiv(MergedSpan, RMul(R(2), TotalLength(curvePoints))))
    IN  IF RLt(lo, Zero) THEN Zero ELSE lo

MergedSpanEnd ==
    LET hi == RAdd(position, RDiv(MergedSpan, RMul(R(2), TotalLength(curvePoints))))
    IN  IF RLt(One, hi) THEN One ELSE hi

\* C9: in Merged mode the single position of count 1 is basePosition; for
\* count > 1, if span <= 0 every position equals basePosition, otherwise the
\* result is exactly count positions evenly spaced from spanStart to spanEnd,
\* the first equal to spanStart and the last to spanEnd, all within [0,1].
C9_MergedModePositions ==
    pc = "merged" =>
        \A span \in {MergedSpan} :
            LET n == numberOfTubes
            IN  /\ Len(positions) = n
                /\ n = 1 => positions[1] = position
                /\ (n > 1 /\ RLe(span, Zero)) =>
                       \A k \in 1..n : positions[k] = position
                /\ (n > 1 /\ RLt(Zero, span)) =>
                       \A spanStart \in {MergedSpanStart}, spanEnd \in {MergedSpanEnd} :
                           /\ positions[1] = spanStart
                           /\ positions[n] = spanEnd
                           /\ \A k \in 1..(n - 1) :
                                  RSub(positions[k + 1], positions[k])
                                      = RDiv(RSub(spanEnd, spanStart), R(n - 1))
                           /\ \A k \in 1..n :
                                  RLe(Zero, positions[k]) /\ RLe(positions[k], One)

\* C9 witness: three tubes have been spread over a positive span that is
\* clamped at the start of the centerline.
C9_Witness ==
    /\ pc = "merged"
    /\ numberOfTubes = 3
    /\ RLt(Zero, MergedSpan)
    /\ positions[1] = Zero
    /\ RLt(positions[1], positions[2])
    /\ RLt(positions[2], positions[3])

\* The segment of the centerline at each position of the request.
PositionSegments ==
    AsList([k \in 1..Len(positions) |->
        PositionTubeAlongCenterline(curvePoints, tubeLength, positions[k])])

\* The positions of the request whose segment has at least 2 points.
BuildablePositions ==
    LET segments == PositionSegments
    IN  {k \in 1..Len(segments) : Len(segments[k]) >= 2}

NoTubeCouldBeBuilt ==
    \A k \in 1..Len(positions) :
        Len(PositionTubeAlongCenterline(curvePoints, tubeLength, positions[k])) < 2

\* C10: if no tube of a multi-tube request could be built, the compositor
\* fails with an error and returns no mesh.
C10_NoTubesRaises ==
    (pc = "merged" /\ NoTubeCouldBeBuilt) =>
        (raised = "ValueError" /\ returned = NoPolyData)

\* C10 witness: a request for several tubes on a centerline of positive
\* length has failed because no segment had 2 points.
C10_Witness ==
    /\ pc = "merged"
    /\ numberOfTubes > 1
    /\ RLt(Zero, TotalLength(curvePoints))
    /\ NoTubeCouldBeBuilt
    /\ raised = "ValueError"


(***************************************************************************)
(* _smoothCenterline, _reduceCenterlinePoints, _applySplineSmoothing.      *)
(***************************************************************************)
\* int(x) for x >= 0.
Floor(a) == a[1] \div a[2]

\* The window size with an even size kept even.
WindowSizeEvenKept(smoothingFactor) ==
    LET w == Floor(RAdd(R(3), RMul(smoothingFactor, R(4))))
    IN  IF w < 3 THEN 3 ELSE w

\* windowSize = max(3, int(3 + smoothingFactor * 4)), made odd.
WindowSize(smoothingFactor) ==
    LET w == Floor(RAdd(R(3), RMul(smoothingFactor, R(4))))
        windowSize == IF w < 3 THEN 3 ELSE w
    IN  IF windowSize % 2 = 0 THEN windowSize + 1 ELSE windowSize

\* np.average(window, weights) around point i (1-based): every point of the
\* window has weight 1 and the centre point weight 2.
WeightedAverage(points, i, windowSize) ==
    LET half == windowSize \div 2
    IN  RDiv(RAdd(RSum(SubSeq(points, i - half, i + half)), points[i]),
             R(windowSize + 1))

\* The early return of _smoothCenterline taken for a zero factor only.
SmoothingSkippedOnZeroOnly(points, smoothingFactor) ==
    Len(points) < 3 \/ smoothingFactor = Zero

\* if not points or points.GetNumberOfPoints() < 3 or smoothingFactor <= 0
SmoothingSkipped(points, smoothingFactor) ==
    Len(points) < 3 \/ RLe(smoothingFactor, Zero)

\* _smoothCenterline with the moving average also taken, over the part of
\* the window that exists, at the points near the two ends.
SmoothCenterlineEndsAveraged(points, smoothingFactor) ==
    IF SmoothingSkipped(points, smoothingFactor) THEN points
    ELSE LET numPoints == Len(points)
             windowSize == WindowSize(smoothingFactor)
             half == windowSize \div 2
             lo(i) == IF i - half < 1 THEN 1 ELSE i - half
             hi(i) == IF i + half > numPoints THEN numPoints ELSE i + half
             smoothed(i) == RDiv(RAdd(RSum(SubSeq(points, lo(i), hi(i))), points[i]),
                                 R(hi(i) - lo(i) + 2))
         IN  AsList([i \in 1..numPoints |->
                 RAdd(RMul(RSub(One, smoothingFactor), points[i]),
                      RMul(smoothingFactor, smoothed(i)))])

SmoothCenterline(points, smoothingFactor) ==
    IF SmoothingSkipped(points, smoothingFactor) THEN points
    ELSE LET numPoints == Len(points)
             windowSize == WindowSize(smoothingFactor)
             half == windowSize \div 2
             \* for i in range(windowSize//2, numPoints - windowSize//2), 0-based
             smoothed(i) == IF half <= i - 1 /\ i - 1 < numPoints - half
                            THEN WeightedAverage(points, i, windowSize)
                            ELSE points[i]
         IN  AsList([i \in 1..numPoints |->
                 RAdd(RMul(RSub(One, smoothingFactor), points[i]),
                      RMul(smoothingFactor, smoothed(i)))])

\* numOutputPoints: int = 20
NumOutputPoints == 20

\* vtkCardinalSpline.Evaluate(t) for control points at parameters 0, 1, 2, ...
\* The spline is library code: the model evaluates the polygon through the
\* control points, which agrees with the spline at every control point.
SplineEvaluate(points, t) ==
    LET k == IF Floor(t) > Len(points) - 2 THEN Len(points) - 2 ELSE Floor(t)
    IN  Lerp(points[k + 1], points[k + 2], RSub(t, R(k)))

ApplySplineSmoothing(points, numOutputPoints) ==
    IF Len(points) < 2 THEN points
    ELSE IF Len(points) = 2
    THEN AsList([i \in 1..numOutputPoints |->
             Lerp(points[1], points[2], Rat(i - 1, numOutputPoints - 1))])
    ELSE LET maxT == R(Len(points) - 1)
         IN  AsList([i \in 1..numOutputPoints |->
                 SplineEvaluate(points, RMul(Rat(i - 1, numOutputPoints - 1), maxT))])

ReduceCenterlinePoints(points) ==
    IF Len(points) < 2 THEN points
    ELSE IF Len(points) <= 4 THEN points
    ELSE LET numPoints == Len(points)
             oneThirdIndex == numPoints \div 3
             twoThirdIndex == (2 * numPoints) \div 3
         IN  ApplySplineSmoothing(<<points[1], points[oneThirdIndex + 1],
                                    points[twoThirdIndex + 1], points[numPoints]>>,
                                  NumOutputPoints)

(***************************************************************************)
(* process and _createAdditionalTubes.                                     *)
(***************************************************************************)
\* numSlices = 20
NumSlices == 20

\* The bounds of the model's points along the line.
RMinOf(s) == CHOOSE x \in {s[i] : i \in 1..Len(s)} : \A j \in 1..Len(s) : RLe(x, s[j])

RMaxOf(s) == CHOOSE x \in {s[i] : i \in 1..Len(s)} : \A j \in 1..Len(s) : RLe(s[j], x)

\* _extractCenterlineFromModel for a model whose points lie on the line:
\* numSlices levels from the lower to the upper bound, each centred on the line.
ExtractCenterlineFromModel(model) ==
    IF Len(model.points) = 0
    THEN [raised |-> "ValueError", points |-> <<>>]
    ELSE LET lo == RMinOf(model.points)
             range == RSub(RMaxOf(model.points), lo)
         IN  [raised |-> "none",
              points |-> AsList([i \in 1..NumSlices |->
                             RAdd(lo, RMul(Rat(i - 1, NumSlices - 1), range))])]

\* A plausible slip: a centerline curve with fewer than 2 points is accepted.
SourcePointsUnchecked(curve, model) ==
    IF curve.present THEN [raised |-> "none", points |-> curve.points]
    ELSE IF Len(model.lines) > 0
    THEN [raised |-> "none",
          points |-> AsList([i \in 1..Len(model.lines[1]) |-> model.points[model.lines[1][i]]])]
    ELSE ExtractCenterlineFromModel(model)

\* process, lines 1439-1467: the curve points of the centerline curve, of
\* the first polyline of the input model, or of the model's geometry.
SourcePoints(curve, model) ==
    IF curve.present
    THEN IF Len(curve.points) < 2
         THEN [raised |-> "ValueError", points |-> <<>>]
         ELSE [raised |-> "none", points |-> curve.points]
    ELSE IF Len(model.lines) > 0
    THEN LET line == model.lines[1]
             pts == AsList([i \in 1..Len(line) |-> model.points[line[i]]])
         IN  IF Len(pts) < 2
             THEN [raised |-> "ValueError", points |-> <<>>]
             ELSE [raised |-> "none", points |-> pts]
    ELSE LET extracted == ExtractCenterlineFromModel(model)
         IN  IF extracted.raised = "none" /\ Len(extracted.points) < 2
             THEN [raised |-> "ValueError", points |-> <<>>]
             ELSE extracted

\* smoothingFactor = 0.3
ProcessSmoothingFactor == Rat(3, 10)

\* position = 0.2 + (i * 0.6 / (numberOfTubes - 1))
AdditionalTubePosition(i, n) == RAdd(Rat(2, 10), RDiv(RMul(R(i), Rat(6, 10)), R(n - 1)))

\* _createAdditionalTubes: the scene after the call.
CreateAdditionalTubes(sc, pts, r, L, n, res) ==
    ClearExistingTubes(sc)
    \o AsList([i \in 1..(n - 1) |-> TubeNode(i + 1, pts, r, L, AdditionalTubePosition(i, n), res)])

\* process: what the call raises and what it leaves behind.
Process(curve, model, out, sc, outPolyData, r, L, pos, n, res) ==
    LET unchanged == [scene |-> sc, outputPolyData |-> outPolyData, ran |-> FALSE,
                      curvePoints |-> <<>>, positionedPoints |-> <<>>]
    IN  IF ~out THEN [raised |-> "ValueError"] @@ unchanged
        ELSE IF ~curve.present /\ ~model.present THEN [raised |-> "ValueError"] @@ unchanged
        ELSE LET source == SourcePoints(curve, model)
             IN  IF source.raised # "none" THEN [raised |-> source.raised] @@ unchanged
                 ELSE LET smoothedPoints == SmoothCenterline(source.points, ProcessSmoothingFactor)
                          positioned == PositionTubeAlongCenterline(smoothedPoints, L, pos)
                          reducedPoints == ReduceCenterlinePoints(positioned)
                          tubePolyData == CreateTubeAlongCurve(reducedPoints, r, res)
                      IN  [raised |-> "none",
                           ran |-> TRUE,
                           curvePoints |-> smoothedPoints,
                           positionedPoints |-> positioned,
                           scene |-> IF n > 1
                                     THEN CreateAdditionalTubes(sc, reducedPoints, r, L, n, res)
                                     ELSE sc,
                           outputPolyData |-> tubePolyData]


(***************************************************************************)
(* Specification Spec: the scene holds a centerline curve or an input      *)
(* model, and process is called any number of times on it (as              *)
(* onApplyButton does, with the nodes of the selectors), with the output   *)
(* model, the position and the tube count chosen at each call.             *)
(***************************************************************************)
\* A curve with more than 4 points, unevenly spaced.
LongCurve == <<R(0), R(10), R(30), R(40), R(90), R(100)>>

\* Curves given to process: no point, one point, two coincident points, two
\* to four points evenly or unevenly spaced, a curve that doubles back, and
\* a curve long enough for the spline reduction.
CenterlineCurves ==
    { <<>>, <<R(0)>>, <<R(0), R(0)>>, <<R(0), R(20)>>, <<R(0), R(10), R(30)>>,
      <<R(0), R(50), R(100)>>, <<R(0), R(20), R(10)>>,
      <<R(0), R(10), R(20), R(30)>>, LongCurve }

CurveNode(pts) == [present |-> TRUE, points |-> pts, lines |-> <<>>]

InputModels ==
    { \* a polyline file: the first line has 4 points
      [present |-> TRUE, points |-> <<R(0), R(10), R(30), R(60)>>,
       lines |-> << <<1, 2, 3, 4>>, <<4, 3>> >>],
      \* a polyline file whose first line has a single point
      [present |-> TRUE, points |-> <<R(0), R(10), R(30)>>,
       lines |-> << <<1>>, <<1, 2, 3>> >>],
      \* a model with no geometry
      [present |-> TRUE, points |-> <<>>, lines |-> <<>>],
      \* a surface model with no polyline
      [present |-> TRUE, points |-> <<R(40), R(0), R(100)>>, lines |-> <<>>],
      \* a surface model of a single point
      [present |-> TRUE, points |-> <<R(5)>>, lines |-> <<>>] }

\* What the two input selectors hold.
Sources ==
    {<<CurveNode(c), NoNode>> : c \in CenterlineCurves}
    \cup {<<NoNode, m>> : m \in InputModels}
    \cup {<<CurveNode(<<Zero>>), m>> : m \in InputModels}
    \cup {<<NoNode, NoNode>>}

ProcessLengths == {R(10), R(20)}
ProcessPositions == {Zero, Rat(1, 2), One}

Init ==
    /\ pc = "ready"
    /\ \E src \in Sources : centerlineCurve = src[1] /\ inputModel = src[2]
    /\ tubeLength \in ProcessLengths
    /\ resolution \in Resolutions
    /\ radius = 2
    /\ position = Zero
    /\ numberOfTubes = 1
    /\ outputModel = TRUE
    /\ curvePoints = <<>>
    /\ startDistance = Zero
    /\ endDistance = Zero
    /\ positionedPoints = <<>>
    /\ positions = <<>>
    /\ returned = NoPolyData
    /\ raised = "none"
    /\ outputPolyData = NoPolyData
    /\ scene = <<>>
    /\ ResamplerIdle
    /\ WidgetSetup
    /\ AnalysisIdle

ProcessCall(out, pos, n) ==
    \E result \in {Process(centerlineCurve, inputModel, out, scene, outputPolyData,
                            radius, tubeLength, pos, n, resolution)} :
        /\ pc' = "processed"
        /\ outputModel' = out
        /\ position' = pos
        /\ numberOfTubes' = n
        /\ raised' = result.raised
        /\ scene' = result.scene
        /\ outputPolyData' = result.outputPolyData
        /\ curvePoints' = IF result.ran THEN result.curvePoints ELSE curvePoints
        /\ positionedPoints' = IF result.ran THEN result.positionedPoints
                               ELSE positionedPoints
        /\ UNCHANGED <<radius, tubeLength, resolution, startDistance, endDistance,
                       positions, returned, centerlineCurve, inputModel>>
        /\ UNCHANGED <<resamplerVars, widgetVars, analysisVars>>

Next == \E out \in BOOLEAN, pos \in ProcessPositions, n \in 1..MaxTubes :
            ProcessCall(out, pos, n)

Spec == Init /\ [][Next]_vars


(***************************************************************************)
(* Claims about process.                                                   *)
(***************************************************************************)

\* The path process hands to _createTubeAlongCurve in the last call that ran.
BuiltPath == ReduceCenterlinePoints(positionedPoints)

\* C4: _createTubeAlongCurve given a path with fewer than 2 points fails
\* with an error, and process never stores an empty mesh in the output model
\* as a successful result: after a call of process, a path of fewer than 2
\* points means the call raised, and a call that did not raise left a mesh
\* with at least one tube in the output model.
C4_ShortPathFailsNoEmptyMesh ==
    pc = "processed" =>
        /\ (raised = "none" /\ Len(BuiltPath) < 2) => FALSE
        /\ raised = "none" => (outputPolyData.present /\ outputPolyData.tubes # <<>>)

\* The number of model nodes named EVARSim_Tube_k in the scene.
TubeNodeCount(k) == Cardinality({j \in 1..Len(scene) : scene[j].name = k})

\* C27: after every successful process call with numberOfTubes = N
\* (1 <= N <= 10), whatever sequence of process calls preceded it, the scene
\* contains exactly one model node named EVARSim_Tube_k for each k in 2..N
\* and none for any k > N; a repetition of the call is such a call, so it
\* leaves this set unchanged.
C27_ExactlyTubeNodesTwoToN ==
    (pc = "processed" /\ raised = "none") =>
        \A k \in 2..10 :
            TubeNodeCount(k) = (IF k <= numberOfTubes THEN 1 ELSE 0)

\* The call of process the claim C5 is about: a centerline curve of at least
\* 2 points and an output model; radius, length, position and resolution
\* are in range in every call.
ValidCall ==
    /\ pc = "processed"
    /\ outputModel
    /\ centerlineCurve.present
    /\ Len(centerlineCurve.points) >= 2
    /\ radius > 0
    /\ RLt(Zero, tubeLength)
    /\ RLe(Zero, position) /\ RLe(position, One)
    /\ resolution >= 6

\* C5: for a centerline curve with at least 2 points, a valid output model
\* and in-range radius, length, position and resolution, process completes
\* without error and the output model holds a mesh with more than zero
\* points and more than zero cells.
C5_ValidCallLeavesMesh ==
    ValidCall => /\ raised = "none"
                 /\ GetNumberOfPoints(outputPolyData) > 0
                 /\ GetNumberOfCells(outputPolyData) > 0

\* The sources process rejects, read off the nodes themselves: neither a
\* curve nor a model, a curve of fewer than 2 points, a model whose first
\* polyline has fewer than 2 points, or a model with no geometry at all (a
\* model with geometry and no polyline always yields NumSlices points).
NoSource == ~centerlineCurve.present /\ ~inputModel.present

FewSourcePoints ==
    IF centerlineCurve.present THEN Len(centerlineCurve.points) < 2
    ELSE IF ~inputModel.present THEN FALSE
    ELSE IF Len(inputModel.lines) > 0 THEN Len(inputModel.lines[1]) < 2
    ELSE Len(inputModel.points) = 0

\* C6: when process is called with no output model, with neither a
\* centerline curve nor an input model, or with a source that yields fewer
\* than 2 points, it raises an error before any mesh work: the scene's
\* nodes and the output model's mesh are the ones before the call.
C6_EarlyFailureChangesNothing ==
    [][(pc' = "processed" /\ (~outputModel' \/ NoSource \/ FewSourcePoints))
        => /\ raised' = "ValueError"
           /\ scene' = scene
           /\ outputPolyData' = outputPolyData]_vars

\* A call without an output model has failed after earlier calls had left
\* tube nodes in the scene and a mesh in the output model.
C6_Witness ==
    /\ pc = "processed"
    /\ ~outputModel
    /\ raised = "ValueError"
    /\ scene # <<>>
    /\ outputPolyData.present
    /\ outputPolyData.tubes # <<>>

\* The tube the claim C7 expects in the node named k: the segment of the
\* caller's centerline at the k-th placement position, reduced (and, for
\* more than 4 points, spline-refined) and built; a node holds no mesh when
\* the segment has fewer than 2 points.
ExpectedAdditionalTube(k) ==
    LET segment == PositionTubeAlongCenterline(
                       curvePoints, tubeLength,
                       AdditionalTubePosition(k - 1, numberOfTubes))
    IN  IF Len(segment) >= 2
        THEN CreateTubeAlongCurve(ReduceCenterlinePoints(segment), radius, resolution)
        ELSE NoPolyData

\* C7: for each placement position of a multi-tube set, the tube is built
\* by extracting the segment of the caller's centerline path at that
\* position, then reducing it to control points, then refining the spline,
\* then building the tube; every tube of the set is cut from the same
\* centerline path.
C7_EachTubeCutFromCenterline ==
    (pc = "processed" /\ raised = "none" /\ numberOfTubes > 1) =>
        \A i \in 1..Len(scene) :
            scene[i].polyData = ExpectedAdditionalTube(scene[i].name)


(***************************************************************************)
(* Specification SpecBuild: one call of _createTubeAlongCurve on a path,   *)
(* a radius and a requested resolution.                                    *)
(***************************************************************************)
\* Requested resolutions: the least the parameter node accepts (6), both
\* sides of the minimum of 8 sides, and the default 16.
BuildResolutions == {6, 7, 8, 9, 16}

InitBuild ==
    /\ pc = "ready"
    /\ curvePoints \in Paths
    /\ radius = 2
    /\ resolution \in BuildResolutions
    /\ tubeLength = R(10)
    /\ position = Zero
    /\ numberOfTubes = 1
    /\ startDistance = Zero
    /\ endDistance = Zero
    /\ positionedPoints = <<>>
    /\ positions = <<>>
    /\ returned = NoPolyData
    /\ raised = "none"
    /\ centerlineCurve = NoNode
    /\ inputModel = NoNode
    /\ outputModel = TRUE
    /\ outputPolyData = NoPolyData
    /\ scene = <<>>
    /\ ResamplerIdle
    /\ WidgetSetup
    /\ AnalysisIdle

\* The call: _createTubeAlongCurve, _addRigidEndCaps and _createCircularCap
\* hold no raise statement, and numpy's division by a zero norm warns and
\* yields nan, so the call raises nothing and returns its poly data.
BuildTube ==
    /\ pc = "ready"
    /\ pc' = "built"
    /\ returned' = CreateTubeAlongCurve(curvePoints, radius, resolution)
    /\ raised' = "none"
    /\ UNCHANGED <<curvePoints, radius, tubeLength, position, numberOfTubes,
                   resolution, startDistance, endDistance, positionedPoints,
                   positions, centerlineCurve, inputModel, outputModel,
                   outputPolyData, scene>>
    /\ UNCHANGED <<resamplerVars, widgetVars, analysisVars>>

NextBuild == BuildTube

SpecBuild == InitBuild /\ [][NextBuild]_vars

\* The call has returned a tube.
TubeBuilt == pc = "built" /\ returned.tubes # <<>>

BuiltTube == returned.tubes[1]

Max(a, b) == IF a < b THEN b ELSE a

C13_SidesAreMaxOfRequestedAndEight ==
    TubeBuilt =>
        /\ BuiltTube.sides = Max(resolution, 8)
        /\ BuiltTube.startCap.numberOfCells = Max(resolution, 8)
        /\ BuiltTube.endCap.numberOfCells = Max(resolution, 8)

\* C13 witness: a request below 8 has been built with 8 sides.
C13_Witness ==
    /\ TubeBuilt
    /\ resolution < 8
    /\ BuiltTube.sides = 8
    /\ BuiltTube.startCap.numberOfCells = 8

\* The first two or the last two points of the path coincide.
DegenerateEnds ==
    /\ Len(curvePoints) >= 2
    /\ \/ curvePoints[1] = curvePoints[2]
       \/ curvePoints[Len(curvePoints) - 1] = curvePoints[Len(curvePoints)]

\* C14: when the first two or the last two points of the path given to the
\* builder coincide, the construction fails with an error and no mesh is
\* produced.
C14_DegenerateEndsFail ==
    (pc = "built" /\ DegenerateEnds) =>
        (raised # "none" /\ returned.tubes = <<>>)


(***************************************************************************)
(* Specification SpecResample: one call of _smoothCenterline or of         *)
(* _reduceCenterlinePoints on a path.                                      *)
(***************************************************************************)
\* The longest path given to the two operations.
MaxPoints == 7

\* The coordinates of the points of the paths.
Coordinates == {0, 1, 4}

RECURSIVE PathsOfLength(_)
PathsOfLength(n) ==
    IF n = 0 THEN {<<>>}
    ELSE {Append(p, R(c)) : p \in PathsOfLength(n - 1), c \in Coordinates}

ResamplePaths == UNION {PathsOfLength(n) : n \in 0..MaxPoints}

\* The smoothing factors: the slider's range 0.0 to 1.0, and a negative one.
SmoothingFactors ==
    {Rat(-1, 2), Zero, Rat(1, 5), Rat(3, 10), Rat(1, 2), Rat(7, 10), One}

InitResample ==
    /\ pc = "ready"
    /\ curvePoints \in ResamplePaths
    /\ smoothing \in SmoothingFactors
    /\ smoothResult = <<>>
    /\ reduceResult = <<>>
    /\ radius = R(2)
    /\ tubeLength = R(10)
    /\ position = Zero
    /\ numberOfTubes = 1
    /\ resolution = 16
    /\ startDistance = Zero
    /\ endDistance = Zero
    /\ positionedPoints = <<>>
    /\ positions = <<>>
    /\ returned = NoPolyData
    /\ raised = "none"
    /\ centerlineCurve = NoNode
    /\ inputModel = NoNode
    /\ outputModel = FALSE
    /\ outputPolyData = NoPolyData
    /\ scene = <<>>
    /\ WidgetSetup
    /\ AnalysisIdle

\* smoothedPoints = self._smoothCenterline(points, smoothingFactor)
Smooth ==
    /\ pc = "ready"
    /\ pc' = "smoothed"
    /\ smoothResult' = SmoothCenterline(curvePoints, smoothing)
    /\ UNCHANGED <<curvePoints, radius, tubeLength, position, numberOfTubes,
                   resolution, startDistance, endDistance, positionedPoints,
                   positions, returned, raised, centerlineCurve, inputModel,
                   outputModel, outputPolyData, scene, smoothing,
                   reduceResult, widgetVars, analysisVars>>

\* reducedPoints = self._reduceCenterlinePoints(points)
Reduce ==
    /\ pc = "ready"
    /\ pc' = "reduced"
    /\ reduceResult' = ReduceCenterlinePoints(curvePoints)
    /\ UNCHANGED <<curvePoints, radius, tubeLength, position, numberOfTubes,
                   resolution, startDistance, endDistance, positionedPoints,
                   positions, returned, raised, centerlineCurve, inputModel,
                   outputModel, outputPolyData, scene, smoothing,
                   smoothResult, widgetVars, analysisVars>>

NextResample == Smooth \/ Reduce

SpecResample == InitResample /\ [][NextResample]_vars

\* C15: _smoothCenterline returns the path unchanged whenever the factor is
\* at most 0 or the path has fewer than 3 points; in particular smoothing
\* with factor 0 is the identity.
C15_NoSmoothingIsIdentity ==
    (pc = "smoothed" /\ (RLe(smoothing, Zero) \/ Len(curvePoints) < 3)) =>
        smoothResult = curvePoints

\* C15 witness: a path of at least 3 points that are not evenly spaced has
\* come back unchanged from smoothing with a factor that is not positive.
C15_Witness ==
    /\ pc = "smoothed"
    /\ RLe(smoothing, Zero)
    /\ Len(curvePoints) >= 3
    /\ \E i \in 2..(Len(curvePoints) - 1) :
           RAdd(curvePoints[i - 1], curvePoints[i + 1]) # RMul(R(2), curvePoints[i])
    /\ smoothResult = curvePoints

\* The factors the claims C16 and C17 are about: 0 < factor <= 1.
FactorInRange == RLt(Zero, smoothing) /\ RLe(smoothing, One)

\* C16: for every factor in (0, 1] and every path, smoothing returns a path
\* of the same length whose first floor(window/2) points and last
\* floor(window/2) points are the input's; a path of no more than window - 1
\* points comes back with every point unchanged.
C16_EndsAreAnchored ==
    (pc = "smoothed" /\ FactorInRange) =>
        LET windowSize == WindowSize(smoothing)
            half == windowSize \div 2
            numPoints == Len(curvePoints)
        IN  /\ Len(smoothResult) = numPoints
            /\ \A i \in 1..numPoints :
                   (i <= half \/ i > numPoints - half) =>
                       smoothResult[i] = curvePoints[i]
            /\ numPoints <= windowSize - 1 => smoothResult = curvePoints

\* C16 witness: smoothing with a factor in (0, 1] has moved an interior point
\* of a path at least as long as the window, and the points within
\* floor(window/2) of either end are the input's.
C16_Witness ==
    /\ pc = "smoothed"
    /\ FactorInRange
    /\ Len(curvePoints) >= WindowSize(smoothing)
    /\ smoothResult # curvePoints
    /\ smoothResult[1] = curvePoints[1]
    /\ smoothResult[Len(curvePoints)] = curvePoints[Len(curvePoints)]

\* round(x) for x >= 0 that is not halfway between two integers.
Round(a) == Floor(RAdd(a, Rat(1, 2)))

\* The window size the code computed in the smoothing call.
WindowComputed == pc = "smoothed" /\ Len(curvePoints) >= 3 /\ FactorInRange

\* C17 as stated: for every smoothing factor in (0, 1], the window size
\* equals 3 + round(factor * 4), increased by one if even, and is one of
\* 3, 5, 7.
C17_WindowIsThreePlusRound ==
    WindowComputed =>
        LET w == 3 + Round(RMul(smoothing, R(4)))
        IN  /\ WindowSize(smoothing) = IF w % 2 = 0 THEN w + 1 ELSE w
            /\ WindowSize(smoothing) \in {3, 5, 7}

\* C17 amended: for every smoothing factor in (0, 1], the window size equals
\* the integer part of 3 + factor * 4 (the sum truncated, not rounded),
\* increased by one if even, and is one of 3, 5, 7.
C17_WindowIsIntegerPart ==
    WindowComputed =>
        LET w == Floor(RAdd(R(3), RMul(smoothing, R(4))))
        IN  /\ WindowSize(smoothing) = IF w % 2 = 0 THEN w + 1 ELSE w
            /\ WindowSize(smoothing) \in {3, 5, 7}

\* C17 witness: a factor whose product with 4 rounds up and truncates down;
\* the smoothing used the window of the truncated sum.
C17_Witness ==
    /\ WindowComputed
    /\ smoothing = Rat(1, 5)
    /\ WindowSize(smoothing) = 3
    /\ Len(curvePoints) = 3
    /\ smoothResult[2] =
           RAdd(RMul(Rat(4, 5), curvePoints[2]),
                RMul(Rat(1, 5),
                     RDiv(RAdd(RAdd(curvePoints[1], curvePoints[3]),
                               RMul(R(2), curvePoints[2])), R(4))))

\* C18: _reduceCenterlinePoints returns its input unchanged when the input
\* has 4 or fewer points, and for an input of N > 4 points returns exactly 4
\* points: the input points at indices 0, floor(N/3), floor(2N/3) and N - 1.
C18_ReduceKeepsFourPoints ==
    pc = "reduced" =>
        LET numPoints == Len(curvePoints)
        IN  IF numPoints <= 4 THEN reduceResult = curvePoints
            ELSE reduceResult = <<curvePoints[1],
                                  curvePoints[(numPoints \div 3) + 1],
                                  curvePoints[((2 * numPoints) \div 3) + 1],
                                  curvePoints[numPoints]>>

(***************************************************************************)
(* The widget: the per-tube parameter records and the handlers of the tube *)
(* count slider, the tube selector and the parameter sliders.              *)
(***************************************************************************)
\* The record of one tube slot (the branch selector is not modelled).
TubeRecord(r, L, pos, res, sm) ==
    [radius |-> r, length |-> L, position |-> pos, resolution |-> res,
     smoothing |-> sm]

\* self.tubeParameters[k] = rec
Store(tp, k, rec) ==
    [j \in (DOMAIN tp) \cup {k} |-> IF j = k THEN rec ELSE tp[j]]

\* The state the handlers read and write: the store, the selected tube, the
\* values of the five parameter sliders, the number of connections of
\* _onParameterChanged to each slider and of _onBranchSelected to the branch
\* selector, and the number of calls of _updateSelectedTube made while a
\* load was setting the sliders.
WidgetState ==
    [tubeParameters |-> tubeParameters,
     currentlySelectedTube |-> currentlySelectedTube,
     radius |-> radius, length |-> tubeLength, position |-> position,
     resolution |-> resolution, smoothing |-> smoothing,
     parameterChangedConnections |-> parameterChangedConnections,
     branchSelectedConnections |-> branchSelectedConnections,
     updatesDuringLoad |-> updatesDuringLoad]

\* The record made of the current slider values.
SliderRecord(w) ==
    TubeRecord(w.radius, w.length, w.position, w.resolution, w.smoothing)

\* The save that stores nothing.
SaveCurrentTubeParametersSkipped(w) == w

\* _saveCurrentTubeParameters
SaveCurrentTubeParameters(w) ==
    IF w.currentlySelectedTube > 0
    THEN [w EXCEPT !.tubeParameters =
              Store(@, w.currentlySelectedTube, SliderRecord(w))]
    ELSE w

\* The default parameters of a tube: 'position': 0.1 + (currentTube - 1) * 0.2
DefaultParameters(currentTube) ==
    TubeRecord(R(2), R(10), RAdd(Rat(1, 10), RMul(R(currentTube - 1), Rat(2, 10))),
               16, Rat(3, 10))

\* The position slider keeps a value it is given within its range 0.0 to 1.0.
SliderPosition(v) == RMax(Zero, RMin(One, v))

\* A disconnect that leaves the connections as they are.
DisconnectNothing(connections) == connections

\* widget.disconnect(signal, handler): one connection of the handler less.
Disconnect(connections) == IF connections > 0 THEN connections - 1 ELSE 0

\* The sliders whose value an assignment of the values in loaded changes;
\* each of them signals valueChanged once.
ChangedSliders(w, loaded) ==
    {f \in {"radius", "length", "position", "resolution", "smoothing"} :
        loaded[f] # w[f]}

\* _loadSelectedTubeParameters: the handlers are disconnected, the sliders
\* are given the values of the record, the handlers are connected again.
\* A slider that changes calls _onParameterChanged once per connection, and
\* _onParameterChanged calls _updateSelectedTube when a source node and an
\* output node are selected.  (The load leaves the index of the branch
\* selector where it is when no branch is available.)
LoadSelectedTubeParameters(w) ==
    LET currentTube == w.currentlySelectedTube
        params == IF currentTube \in DOMAIN w.tubeParameters
                  THEN w.tubeParameters[currentTube]
                  ELSE DefaultParameters(currentTube)
        loaded == TubeRecord(params.radius, params.length,
                             SliderPosition(params.position),
                             params.resolution, params.smoothing)
        connected == Disconnect(w.parameterChangedConnections)
        branchConnected == Disconnect(w.branchSelectedConnections)
        updates == IF (centerlineCurve.present \/ inputModel.present) /\ outputModel
                   THEN connected * Cardinality(ChangedSliders(w, loaded))
                   ELSE 0
    IN  [tubeParameters |-> Store(w.tubeParameters, currentTube, params),
         currentlySelectedTube |-> currentTube,
         radius |-> loaded.radius, length |-> loaded.length,
         position |-> loaded.position,
         resolution |-> loaded.resolution, smoothing |-> loaded.smoothing,
         parameterChangedConnections |-> connected + 1,
         branchSelectedConnections |-> branchConnected + 1,
         updatesDuringLoad |-> w.updatesDuringLoad + updates]

\* _onTubeSelected, the selector's current index being currentIndex.
OnTubeSelected(w, currentIndex) ==
    LoadSelectedTubeParameters(
        [SaveCurrentTubeParameters(w) EXCEPT !.currentlySelectedTube = currentIndex + 1])

\* _updateTubeSelector: clear() of a selector that holds items moves its
\* current index to -1, and the first addItem moves it to 0; the selector
\* signals both changes to _onTubeSelected.
UpdateTubeSelector(w, selectorCount) ==
    OnTubeSelected(IF selectorCount > 0 THEN OnTubeSelected(w, -1) ELSE w, 0)

\* _updateSelectedTube: the store, the scene and the output poly data after
\* the call (availableBranches is empty).
UpdateSelectedTube(w, curve, model, out, sc, outPolyData) ==
    LET currentTube == w.currentlySelectedTube
        unchanged == [tubeParameters |-> w.tubeParameters, scene |-> sc,
                      outputPolyData |-> outPolyData]
    IN  IF currentTube <= 0 THEN unchanged
        ELSE LET params == SliderRecord(w)
                 saved == [unchanged EXCEPT !.tubeParameters = Store(@, currentTube, params)]
                 source == IF curve.present
                           THEN [raised |-> "none", points |-> curve.points]
                           ELSE IF model.present THEN ExtractCenterlineFromModel(model)
                           ELSE [raised |-> "none", points |-> <<>>]
             IN  IF source.raised # "none" \/ Len(source.points) < 2 THEN saved
                 ELSE LET smoothedPoints == SmoothCenterline(source.points, params.smoothing)
                          positioned == PositionTubeAlongCenterline(smoothedPoints,
                                            params.length, params.position)
                          reducedPoints == ReduceCenterlinePoints(positioned)
                          tubePolyData == CreateTubeAlongCurve(reducedPoints,
                                              params.radius, params.resolution)
                      IN  IF currentTube = 1
                          THEN IF out THEN [saved EXCEPT !.outputPolyData = tubePolyData]
                               ELSE saved
                          ELSE IF \E j \in 1..Len(sc) : sc[j].name = currentTube
                          THEN LET j == CHOOSE x \in 1..Len(sc) :
                                            /\ sc[x].name = currentTube
                                            /\ \A y \in 1..(x - 1) : sc[y].name # currentTube
                               IN  [saved EXCEPT !.scene[j].polyData = tubePolyData]
                          ELSE saved

\* Both a source node and an output node are selected.
NodesSelected == (centerlineCurve.present \/ inputModel.present) /\ outputModel


(***************************************************************************)
(* Specification SpecWidget: the user moves the tube count slider, picks   *)
(* tubes in the tube selector and moves the position slider.               *)
(***************************************************************************)
\* The largest tube count the user sets (the slider allows up to 10).
MaxTubeCount == 5

\* The values the user gives the position slider.
WidgetPositions == {Rat(1, 2)}

\* The centerline curves selected in the widget.
WidgetCurves == {NoNode, CurveNode(<<>>), CurveNode(<<R(0), R(10), R(30)>>)}

InitWidget ==
    /\ pc = "ready"
    /\ tubeParameters = <<>>
    /\ currentlySelectedTube = 1
    /\ tubeSelectorCount \in {0, 1}
    /\ tubeSelectorIndex = tubeSelectorCount - 1
    /\ radius = R(2)
    /\ tubeLength = R(10)
    /\ position = Zero
    /\ numberOfTubes = 1
    /\ resolution = 16
    /\ smoothing = Rat(3, 10)
    /\ centerlineCurve \in WidgetCurves
    /\ inputModel = NoNode
    /\ outputModel = centerlineCurve.present
    /\ outputPolyData = NoPolyData
    /\ scene = <<>>
    /\ curvePoints = <<>>
    /\ startDistance = Zero
    /\ endDistance = Zero
    /\ positionedPoints = <<>>
    /\ positions = <<>>
    /\ returned = NoPolyData
    /\ raised = "none"
    /\ smoothResult = <<>>
    /\ reduceResult = <<>>
    /\ availableBranches = <<>>
    /\ HandlersConnected
    /\ AnalysisIdle

\* The handlers' result w becomes the widget's state.
SetWidgetState(w) ==
    /\ tubeParameters' = w.tubeParameters
    /\ currentlySelectedTube' = w.currentlySelectedTube
    /\ radius' = w.radius
    /\ tubeLength' = w.length
    /\ position' = w.position
    /\ resolution' = w.resolution
    /\ smoothing' = w.smoothing
    /\ parameterChangedConnections' = w.parameterChangedConnections
    /\ branchSelectedConnections' = w.branchSelectedConnections
    /\ updatesDuringLoad' = w.updatesDuringLoad

\* The user moves the tube count slider to n: _onTubeCountChanged.
TubeCountChanged(n) ==
    /\ n # numberOfTubes
    /\ numberOfTubes' = n
    /\ \E w \in {UpdateTubeSelector(WidgetState, tubeSelectorCount)} :
           /\ SetWidgetState(w)
           /\ tubeSelectorCount' = n
           /\ tubeSelectorIndex' = 0
           /\ IF NodesSelected
              THEN \E result \in {Process(centerlineCurve, inputModel, outputModel,
                                          scene, outputPolyData, w.radius, w.length,
                                          w.position, n, w.resolution)} :
                       /\ pc' = "processed"
                       /\ raised' = result.raised
                       /\ scene' = result.scene
                       /\ outputPolyData' = result.outputPolyData
                       /\ curvePoints' = IF result.ran THEN result.curvePoints
                                         ELSE curvePoints
                       /\ positionedPoints' = IF result.ran THEN result.positionedPoints
                                              ELSE positionedPoints
              ELSE UNCHANGED <<pc, raised, scene, outputPolyData, curvePoints,
                               positionedPoints>>
    /\ UNCHANGED <<startDistance, endDistance, positions, returned,
                   centerlineCurve, inputModel, outputModel, smoothResult,
                   reduceResult, availableBranches, analysisVars>>

\* The user picks the item of index i in the tube selector: _onTubeSelected.
TubeSelected(i) ==
    /\ i # tubeSelectorIndex
    /\ i < tubeSelectorCount
    /\ tubeSelectorIndex' = i
    /\ SetWidgetState(OnTubeSelected(WidgetState, i))
    /\ UNCHANGED <<pc, curvePoints, numberOfTubes, startDistance, endDistance,
                   positionedPoints, positions, returned, raised,
                   centerlineCurve, inputModel, outputModel, outputPolyData,
                   scene, smoothResult, reduceResult, tubeSelectorCount,
                   availableBranches, analysisVars>>

\* The user moves the position slider to v: _onParameterChanged.
ParameterChanged(v) ==
    /\ v # position
    /\ position' = v
    /\ IF NodesSelected
       THEN \E result \in {UpdateSelectedTube([WidgetState EXCEPT !.position = v],
                               centerlineCurve, inputModel, outputModel, scene,
                               outputPolyData)} :
                /\ tubeParameters' = result.tubeParameters
                /\ scene' = result.scene
                /\ outputPolyData' = result.outputPolyData
       ELSE UNCHANGED <<tubeParameters, scene, outputPolyData>>
    /\ UNCHANGED <<pc, curvePoints, radius, tubeLength, numberOfTubes,
                   resolution, startDistance, endDistance, positionedPoints,
                   positions, returned, raised, centerlineCurve, inputModel,
                   outputModel, smoothing, smoothResult, reduceResult,
                   currentlySelectedTube, tubeSelectorCount, tubeSelectorIndex,
                   availableBranches, parameterChangedConnections,
                   branchSelectedConnections, updatesDuringLoad, analysisVars>>

NextWidget ==
    \/ \E n \in 1..MaxTubeCount : TubeCountChanged(n)
    \/ \E i \in 0..(MaxTubeCount - 1) : TubeSelected(i)
    \/ \E v \in WidgetPositions : ParameterChanged(v)

SpecWidget == InitWidget /\ [][NextWidget]_vars

\* C19: when the tube count shrinks, the records of the slots beyond the new
\* count are discarded: after any sequence of tube-count changes, tube
\* selections and parameter changes the store holds records only for the
\* slots 1..N, N being the current tube count.
C19_RecordsOnlyForCurrentSlots ==
    DOMAIN tubeParameters \subseteq 1..numberOfTubes

\* C20: every record stored for a tube slot, the defaults created on the
\* first reference to a slot included, has its position within [0.0, 1.0].
C20_StoredPositionsInRange ==
    \A k \in DOMAIN tubeParameters :
        /\ RLe(Zero, tubeParameters[k].position)
        /\ RLe(tubeParameters[k].position, One)

\* The sliders show the values of the record rec.
ControlsShow(w, rec) == SliderRecord(w) = rec

C29_LoadTriggersNoRegeneration ==
    /\ updatesDuringLoad = 0
    /\ parameterChangedConnections = 1
    /\ branchSelectedConnections = 1

\* C29 witness: with a curve and an output model selected, a load has moved
\* the position slider to the default position of tube 2.
C29_Witness ==
    /\ NodesSelected
    /\ currentlySelectedTube = 2
    /\ tubeParameters[2] = DefaultParameters(2)
    /\ position = Rat(3, 10)
    /\ updatesDuringLoad = 0
    /\ parameterChangedConnections = 1

(***************************************************************************)
(* Branches of a polyline model: _analyzeBranches and                      *)
(* _extractBranchCenterline.  A line of a model is the list of its point   *)
(* ids; the model numbers points from 1 where the program numbers from 0.  *)
(***************************************************************************)
\* if len(line_points) > 2:  # Only consider meaningful segments
MeaningfulSegment(linePoints) == Len(linePoints) > 2

\* line_segments: the lines of the model that have more than 2 points.
LineSegments(model) == SelectSeq(model.lines, MeaningfulSegment)

\* The record of one branch.
BranchRecord(model, i, segment) ==
    [segment_id |-> i,
     points |-> segment,
     length |-> Len(segment),
     start_coords |-> model.points[segment[1]],
     end_coords |-> model.points[segment[Len(segment)]]]

\* The branches with every line of the model taken as a segment.
AnalyzeBranchesUnfiltered(model) ==
    AsList([i \in 1..Len(model.lines) |-> BranchRecord(model, i - 1, model.lines[i])])

\* _analyzeBranches: the value it gives self.availableBranches.
AnalyzeBranches(model) ==
    LET line_segments == LineSegments(model)
    IN  IF Len(model.lines) = 0 THEN <<>>
        ELSE IF Len(line_segments) > 1
        THEN AsList([i \in 1..Len(line_segments) |->
                 BranchRecord(model, i - 1, line_segments[i])])
        ELSE <<>>

\* _extractBranchCenterline with a negative index counted from the end, as
\* a Python list takes it.
ExtractBranchCenterlineFromEnd(model, index) ==
    LET line_segments == LineSegments(model)
        i == IF index < 0 THEN Len(line_segments) + index ELSE index
    IN  IF i < 0 \/ i >= Len(line_segments) THEN <<>>
        ELSE AsList([j \in 1..Len(line_segments[i + 1]) |->
                 model.points[line_segments[i + 1][j]]])

\* _extractBranchCenterline: the points it returns; it raises nothing.
ExtractBranchCenterline(model, index) ==
    LET line_segments == LineSegments(model)
    IN  IF index < 0 \/ index >= Len(line_segments) THEN <<>>
        ELSE AsList([j \in 1..Len(line_segments[index + 1]) |->
                 model.points[line_segments[index + 1][j]]])


(***************************************************************************)
(* Specification SpecBranch: an input model is selected; the widget        *)
(* analyses its branches and the logic extracts a branch by index.         *)
(***************************************************************************)
\* The largest number of lines of a model.
MaxLines == 3

\* The points of the models.
ModelPoints == <<R(0), R(10), R(30), R(60)>>

\* The lines the models are made of.
BranchLines == { <<1>>, <<1, 2>>, <<1, 2, 3>>, <<2, 3, 4>>, <<4, 3, 2, 1>> }

RECURSIVE LineLists(_)
LineLists(n) ==
    IF n = 0 THEN {<<>>}
    ELSE {Append(ls, l) : ls \in LineLists(n - 1), l \in BranchLines}

BranchModels ==
    {[present |-> TRUE, points |-> ModelPoints, lines |-> ls] :
        ls \in UNION {LineLists(n) : n \in 0..MaxLines}}

InitBranch ==
    /\ pc = "ready"
    /\ inputModel \in BranchModels
    /\ centerlineCurve = NoNode
    /\ outputModel = FALSE
    /\ curvePoints = <<>>
    /\ radius = R(2)
    /\ tubeLength = R(10)
    /\ position = Zero
    /\ numberOfTubes = 1
    /\ resolution = 16
    /\ startDistance = Zero
    /\ endDistance = Zero
    /\ positionedPoints = <<>>
    /\ positions = <<>>
    /\ returned = NoPolyData
    /\ raised = "none"
    /\ outputPolyData = NoPolyData
    /\ scene = <<>>
    /\ ResamplerIdle
    /\ WidgetSetup
    /\ AnalysisIdle

\* self._analyzeBranches(inputModel)
AnalyzeBranchesCall ==
    /\ pc = "ready"
    /\ pc' = "analyzed"
    /\ availableBranches' = AnalyzeBranches(inputModel)
    /\ UNCHANGED <<curvePoints, radius, tubeLength, position, numberOfTubes,
                   resolution, startDistance, endDistance, positionedPoints,
                   positions, returned, raised, centerlineCurve, inputModel,
                   outputModel, outputPolyData, scene, resamplerVars,
                   tubeParameters, currentlySelectedTube, tubeSelectorCount,
                   tubeSelectorIndex, parameterChangedConnections,
                   branchSelectedConnections, updatesDuringLoad, analysisVars>>

\* curvePoints = self.logic._extractBranchCenterline(inputModel, index)
ExtractBranchCall(index) ==
    /\ pc \in {"ready", "analyzed"}
    /\ pc' = "extracted"
    /\ branchIndex' = index
    /\ curvePoints' = ExtractBranchCenterline(inputModel, index)
    /\ raised' = "none"
    /\ UNCHANGED <<radius, tubeLength, position, numberOfTubes,
                   resolution, startDistance, endDistance, positionedPoints,
                   positions, returned, centerlineCurve, inputModel,
                   outputModel, outputPolyData, scene, resamplerVars,
                   widgetVars, pointConnectivity, branchPoints,
                   endpointPoints, branchPointId, traceStart, traceNext,
                   tracePath>>

NextBranch ==
    \/ AnalyzeBranchesCall
    \/ \E index \in -2..MaxLines : ExtractBranchCall(index)

SpecBranch == InitBranch /\ [][NextBranch]_vars

\* The index handed to _extractBranchCenterline is outside
\* 0..(number of branches - 1).
IndexOutOfRange ==
    branchIndex < 0 \/ branchIndex >= Len(LineSegments(inputModel))

\* C21: selecting a branch by an index outside 0..(number of branches - 1),
\* any negative index included, returns an empty point sequence and raises
\* nothing to the caller.
C21_OutOfRangeIndexGivesNoPoints ==
    (pc = "extracted" /\ IndexOutOfRange) =>
        (curvePoints = <<>> /\ raised = "none")

\* C21 witness: a negative index was asked of a model that has branches, and
\* no point came back.
C21_Witness ==
    /\ pc = "extracted"
    /\ branchIndex < 0
    /\ Len(LineSegments(inputModel)) >= -branchIndex
    /\ curvePoints = <<>>
    /\ raised = "none"

\* C22 as stated: every segment of the polyline graph contributes exactly
\* one Branch record carrying its segment index, its full point-index list
\* and its point count, so the number of branches equals the number of
\* segments and branch index i denotes segment i.
C22_OneBranchPerSegment ==
    pc = "analyzed" =>
        /\ Len(availableBranches) = Len(inputModel.lines)
        /\ \A i \in 1..Len(availableBranches) :
               /\ availableBranches[i].segment_id = i - 1
               /\ availableBranches[i].points = inputModel.lines[i]
               /\ availableBranches[i].length = Len(inputModel.lines[i])

\* C22 amended: when the polyline graph has at least two segments of more
\* than 2 points, every such segment contributes exactly one Branch record
\* carrying its index among these segments, its full point-index list and
\* its point count, and branch index i denotes the i-th of these segments
\* for _extractBranchCenterline too; otherwise there is no Branch record.
C22_OneBranchPerLongSegment ==
    pc = "analyzed" =>
        LET segments == LineSegments(inputModel)
        IN  IF Len(segments) > 1
            THEN /\ Len(availableBranches) = Len(segments)
                 /\ \A i \in 1..Len(segments) :
                        /\ availableBranches[i].segment_id = i - 1
                        /\ availableBranches[i].points = segments[i]
                        /\ availableBranches[i].length = Len(segments[i])
                        /\ ExtractBranchCenterline(inputModel, i - 1) =
                               AsList([j \in 1..Len(segments[i]) |->
                                   inputModel.points[segments[i][j]]])
            ELSE availableBranches = <<>>

\* C22 witness: a model with a short line between two long ones has two
\* branches, and the second branch is the third line.
C22_Witness ==
    /\ pc = "analyzed"
    /\ Len(inputModel.lines) = 3
    /\ Len(inputModel.lines[2]) <= 2
    /\ Len(availableBranches) = 2
    /\ availableBranches[2].segment_id = 1
    /\ availableBranches[2].points = inputModel.lines[3]

(***************************************************************************)
(* The analysis scripts: analyze_vtk.py (connectivity, branch points,      *)
(* endpoints, trace_branch_path), analyze_vtk_detailed.py and              *)
(* final_branch_analysis.py (frequency analysis).  The polydata of the     *)
(* file is the input model; branch_points and endpoint_points, lists in    *)
(* the scripts, are sets here.                                             *)
(***************************************************************************)
\* The elements of a list.
Range(s) == {s[i] : i \in 1..Len(s)}

\* One direction only of the connectivity update.
ConnectEdgeOneWay(connectivity, p1, p2) ==
    IF p2 \notin Range(connectivity[p1])
    THEN [connectivity EXCEPT ![p1] = Append(@, p2)]
    ELSE connectivity

\* if p2 not in point_connectivity[p1]: point_connectivity[p1].append(p2)
\* if p1 not in point_connectivity[p2]: point_connectivity[p2].append(p1)
ConnectEdge(connectivity, p1, p2) ==
    LET first == IF p2 \notin Range(connectivity[p1])
                 THEN [connectivity EXCEPT ![p1] = Append(@, p2)]
                 ELSE connectivity
    IN  IF p1 \notin Range(first[p2])
        THEN [first EXCEPT ![p2] = Append(@, p1)]
        ELSE first

\* for k in range(len(line_points) - 1): the edges k.. of a line.
RECURSIVE ConnectLine(_, _, _)
ConnectLine(connectivity, line_points, k) ==
    IF k >= Len(line_points) THEN connectivity
    ELSE ConnectLine(ConnectEdge(connectivity, line_points[k], line_points[k + 1]),
                     line_points, k + 1)

\* The while loop over the lines of the file, from line i on.
RECURSIVE ConnectLines(_, _, _)
ConnectLines(connectivity, lines, i) ==
    IF i > Len(lines) THEN connectivity
    ELSE ConnectLines(ConnectLine(connectivity, lines[i], 1), lines, i + 1)

\* point_connectivity after every line has been processed.
PointConnectivity(model) ==
    ConnectLines([p \in 1..Len(model.points) |-> <<>>], model.lines, 1)

\* Points with at least 2 connections.
BranchPointsOfTwo(connectivity) ==
    {p \in DOMAIN connectivity : Len(connectivity[p]) >= 2}

\* if len(connections) > 2: branch_points.append(point_id)
BranchPoints(connectivity) ==
    {p \in DOMAIN connectivity : Len(connectivity[p]) > 2}

\* elif len(connections) == 1: endpoint_points.append(point_id)
EndpointPoints(connectivity) ==
    {p \in DOMAIN connectivity :
        ~(Len(connectivity[p]) > 2) /\ Len(connectivity[p]) = 1}

\* The candidates taken as the first connection of the current point.
NextCandidatesFirst(connectivity, path) ==
    <<connectivity[path[Len(path)]][1]>>

\* next_candidates = [p for p in connections if p != path[-2]]
NextCandidates(connectivity, path) ==
    LET NotPrevious(p) == p # path[Len(path) - 1]
    IN  SelectSeq(connectivity[path[Len(path)]], NotPrevious)

\* The number of times p occurs in the list.
RECURSIVE Count(_, _)
Count(s, p) ==
    IF Len(s) = 0 THEN 0
    ELSE (IF s[1] = p THEN 1 ELSE 0) + Count(Tail(s), p)

\* sorted(counts.items(), key=lambda x: x[1], reverse=True)[0][0]: the most
\* frequent element, the one met first among equals.
MostFrequent(s) ==
    LET first(p) == CHOOSE i \in 1..Len(s) : s[i] = p /\ \A j \in 1..(i - 1) : s[j] # p
    IN  CHOOSE p \in Range(s) :
            \A q \in Range(s) :
                \/ Count(s, q) < Count(s, p)
                \/ Count(s, q) = Count(s, p) /\ first(p) <= first(q)

\* all_endpoints: the first and the last point of every line that has points.
RECURSIVE AllEndpoints(_)
AllEndpoints(lines) ==
    IF Len(lines) = 0 THEN <<>>
    ELSE (IF Len(lines[1]) > 0 THEN <<lines[1][1], lines[1][Len(lines[1])]>> ELSE <<>>)
         \o AllEndpoints(Tail(lines))

\* all_points: the points of every line.
RECURSIVE AllPoints(_)
AllPoints(lines) ==
    IF Len(lines) = 0 THEN <<>> ELSE lines[1] \o AllPoints(Tail(lines))

\* analyze_vtk_detailed: branch_point_id, or the IndexError of an empty list.
DetailedBranchPoint(model) ==
    IF AllEndpoints(model.lines) = <<>>
    THEN [raised |-> "IndexError", branchPointId |-> 0]
    ELSE [raised |-> "none", branchPointId |-> MostFrequent(AllEndpoints(model.lines))]

\* final_branch_analysis: branch_point_id, or the IndexError of an empty list.
FinalBranchPoint(model) ==
    IF AllPoints(model.lines) = <<>>
    THEN [raised |-> "IndexError", branchPointId |-> 0]
    ELSE [raised |-> "none", branchPointId |-> MostFrequent(AllPoints(model.lines))]


(***************************************************************************)
(* Specification SpecTopology: one run of a script on a polyline file;     *)
(* after analyze_vtk_file has found the branch points, one call of         *)
(* trace_branch_path runs step by step.                                    *)
(***************************************************************************)
\* The longest path trace_branch_path is followed to.
MaxPathLength == 16

\* The lines the files are made of.
TopologyLines ==
    { <<1>>, <<1, 1>>, <<1, 2>>, <<1, 3>>, <<1, 4>>, <<2, 3>>, <<1, 2, 3>>,
      <<3, 1, 4>>, <<3, 1, 2>>, <<4, 1, 2>>, <<2, 2, 3>> }

RECURSIVE TopologyLineLists(_)
TopologyLineLists(n) ==
    IF n = 0 THEN {<<>>}
    ELSE {Append(ls, l) : ls \in TopologyLineLists(n - 1), l \in TopologyLines}

TopologyModels ==
    {[present |-> TRUE, points |-> ModelPoints, lines |-> ls] :
        ls \in UNION {TopologyLineLists(n) : n \in 0..MaxLines}}

InitTopology ==
    /\ pc = "ready"
    /\ inputModel \in TopologyModels
    /\ centerlineCurve = NoNode
    /\ outputModel = FALSE
    /\ curvePoints = <<>>
    /\ radius = R(2)
    /\ tubeLength = R(10)
    /\ position = Zero
    /\ numberOfTubes = 1
    /\ resolution = 16
    /\ startDistance = Zero
    /\ endDistance = Zero
    /\ positionedPoints = <<>>
    /\ positions = <<>>
    /\ returned = NoPolyData
    /\ raised = "none"
    /\ outputPolyData = NoPolyData
    /\ scene = <<>>
    /\ ResamplerIdle
    /\ WidgetSetup
    /\ AnalysisIdle

\* What no script changes.
TopologyFrame ==
    UNCHANGED <<curvePoints, radius, tubeLength, position, numberOfTubes,
                resolution, startDistance, endDistance, positionedPoints,
                positions, returned, centerlineCurve, inputModel, outputModel,
                outputPolyData, scene, resamplerVars, widgetVars, branchIndex>>

\* analyze_vtk_file up to the classification of the points (lines 29-76).
AnalyzeVtkFile ==
    /\ pc = "ready"
    /\ pc' = "analysed"
    /\ \E connectivity \in {PointConnectivity(inputModel)} :
           /\ pointConnectivity' = connectivity
           /\ branchPoints' = BranchPoints(connectivity)
           /\ endpointPoints' = EndpointPoints(connectivity)
    /\ UNCHANGED <<raised, branchPointId, traceStart, traceNext, tracePath>>
    /\ TopologyFrame

\* branch_path = trace_branch_path(bp, connection, point_connectivity,
\* endpoint_points): path = [start_point, next_point]
StartTrace(bp, connection) ==
    /\ pc = "analysed"
    /\ bp \in branchPoints
    /\ connection \in Range(pointConnectivity[bp])
    /\ pc' = "tracing"
    /\ traceStart' = bp
    /\ traceNext' = connection
    /\ tracePath' = <<bp, connection>>
    /\ UNCHANGED <<raised, branchPointId, pointConnectivity, branchPoints,
                   endpointPoints>>
    /\ TopologyFrame

\* One test of the while condition of trace_branch_path and, when it holds,
\* one pass through the body; the function returns when pc is "traced".
TraceStep ==
    /\ pc = "tracing"
    /\ IF tracePath[Len(tracePath)] \in endpointPoints
       THEN pc' = "traced" /\ tracePath' = tracePath
       ELSE \E next_candidates \in {NextCandidates(pointConnectivity, tracePath)} :
                IF Len(next_candidates) = 1
                THEN /\ Len(tracePath) < MaxPathLength
                     /\ tracePath' = Append(tracePath, next_candidates[1])
                     /\ pc' = pc
                ELSE pc' = "traced" /\ tracePath' = tracePath
    /\ UNCHANGED <<raised, branchPointId, pointConnectivity, branchPoints,
                   endpointPoints, traceStart, traceNext>>
    /\ TopologyFrame

\* analyze_vtk_detailed: the most common endpoint.
AnalyzeVtkDetailed ==
    /\ pc = "ready"
    /\ pc' = "detailed"
    /\ \E result \in {DetailedBranchPoint(inputModel)} :
           /\ raised' = result.raised
           /\ branchPointId' = result.branchPointId
    /\ UNCHANGED <<pointConnectivity, branchPoints, endpointPoints, traceStart,
                   traceNext, tracePath>>
    /\ TopologyFrame

\* final_branch_analysis: the most frequently used point.
FinalBranchAnalysis ==
    /\ pc = "ready"
    /\ pc' = "final"
    /\ \E result \in {FinalBranchPoint(inputModel)} :
           /\ raised' = result.raised
           /\ branchPointId' = result.branchPointId
    /\ UNCHANGED <<pointConnectivity, branchPoints, endpointPoints, traceStart,
                   traceNext, tracePath>>
    /\ TopologyFrame

NextTopology ==
    \/ AnalyzeVtkFile
    \/ \E bp \in 1..Len(ModelPoints), connection \in 1..Len(ModelPoints) :
           StartTrace(bp, connection)
    \/ TraceStep
    \/ AnalyzeVtkDetailed
    \/ FinalBranchAnalysis

SpecTopology == InitTopology /\ [][NextTopology]_vars

\* The loop of trace_branch_path keeps running until the function returns.
SpecTopologyFair == SpecTopology /\ WF_vars(TraceStep)

\* analyze_vtk_file has processed every line.
Analysed == pc \in {"analysed", "tracing", "traced"}

\* C23: the point connectivity built from the segments is symmetric after
\* every segment has been processed: B is in connectivity[A] if and only if
\* A is in connectivity[B], and each neighbour is listed at most once.
C23_ConnectivityIsSymmetric ==
    Analysed =>
        \A A \in DOMAIN pointConnectivity :
            /\ \A B \in DOMAIN pointConnectivity :
                   B \in Range(pointConnectivity[A]) <=> A \in Range(pointConnectivity[B])
            /\ Cardinality(Range(pointConnectivity[A])) = Len(pointConnectivity[A])

\* C23 witness: the file repeats an edge in the opposite direction and the
\* two points still list each other once.
C23_Witness ==
    /\ pc = "analysed"
    /\ inputModel.lines = << <<1, 2, 3>>, <<3, 1, 2>> >>
    /\ pointConnectivity[1] = <<2, 3>>
    /\ pointConnectivity[3] = <<2, 1>>

\* The lines are 3 segments that all share one endpoint and nothing else.
ThreeSegmentStar(lines, shared) ==
    /\ Len(lines) = 3
    /\ \A i \in 1..3 :
           /\ Len(lines[i]) >= 2
           /\ lines[i][1] = shared \/ lines[i][Len(lines[i])] = shared
           /\ Cardinality(Range(lines[i])) = Len(lines[i])
    /\ \A i, j \in 1..3 : i # j => Range(lines[i]) \cap Range(lines[j]) = {shared}

\* The end of a segment that is not the shared point.
FarEnd(line, shared) == IF line[1] = shared THEN line[Len(line)] ELSE line[1]

\* C24: a point is a branch point exactly when its connectivity degree is
\* greater than 2 and an endpoint exactly when its degree is 1, and no point
\* is both; for 3 segments that all share one endpoint, the shared point is
\* the only branch point and the 3 far ends are exactly the endpoints.
C24_PointsClassifiedByDegree ==
    Analysed =>
        /\ \A p \in DOMAIN pointConnectivity :
               /\ p \in branchPoints <=> Len(pointConnectivity[p]) > 2
               /\ p \in endpointPoints <=> Len(pointConnectivity[p]) = 1
        /\ branchPoints \cap endpointPoints = {}
        /\ \A shared \in DOMAIN pointConnectivity :
               ThreeSegmentStar(inputModel.lines, shared) =>
                   /\ branchPoints = {shared}
                   /\ endpointPoints =
                          {FarEnd(inputModel.lines[i], shared) : i \in 1..3}

\* C24 witness: 3 segments share the point 1; it is the branch point and the
\* far ends 2, 3, 4 are the endpoints.
C24_Witness ==
    /\ pc = "analysed"
    /\ ThreeSegmentStar(inputModel.lines, 1)
    /\ branchPoints = {1}
    /\ endpointPoints = {2, 3, 4}

\* The number of times a segment has p as its first or as its last point.
Terminations(p) == Count(AllEndpoints(inputModel.lines), p)

\* C25: the principal bifurcation point chosen by the frequency analysis is
\* a point index at which the largest number of segments terminate (as
\* first or last point); occurrences of a point in the interior of segments
\* do not count toward the choice.
C25_BifurcationHasMostTerminations ==
    (pc \in {"detailed", "final"} /\ raised = "none") =>
        \A q \in 1..Len(ModelPoints) :
            Terminations(q) <= Terminations(branchPointId)

\* C30: trace_branch_path terminates on every finite symmetric connectivity
\* map when started from a branch point and one of its neighbours (graphs
\* with cycles and repeated point indices included), and the returned path
\* begins with the start point followed by that neighbour.
C30_TraceTerminates ==
    /\ (pc = "tracing") ~> (pc = "traced")
    /\ [](pc \in {"tracing", "traced"} =>
              /\ Len(tracePath) >= 2
              /\ tracePath[1] = traceStart
              /\ tracePath[2] = traceNext)

\* C30 witness: a trace that went round a cycle has returned at the branch
\* point it started from.
C30_Witness ==
    /\ pc = "traced"
    /\ Len(tracePath) >= 4
    /\ tracePath[Len(tracePath)] = traceStart
====
